---- MODULE Spec2Model ----
(***************************************************************************)
(* A model of the validation tracker (class Network and class              *)
(* ValidationStream).                                                      *)
(*                                                                         *)
(* Every action is one run of the event loop: from the arrival of an I/O   *)
(* event (a response, a stream event, a timer) to the point where the      *)
(* callback returns, throws, or suspends on real I/O.  An `await` of a     *)
(* name that is already cached resumes in a microtask, before any other    *)
(* I/O event is handled, so it does not end the run.                       *)
(*                                                                         *)
(* Spec        the registry (validators, manifestKeys, names and the list  *)
(*             sequence) under concurrent roster fetches, name lookups and *)
(*             the manifestReceived messages of the peers.                 *)
(* SpecSerial  the same handlers when a fetch is started only after the    *)
(*             previous one has been applied, over one more list version.  *)
(* SpecPeers   the constructor's refresh calls, discovery and the life of   *)
(*             the connections: open, ping, messages, the heartbeat timer  *)
(*             and close.  SpecPeersFair adds that armed timers fire.      *)
(***************************************************************************)
EXTENDS Integers, Sequences, FiniteSets, Bags, TLC

\* ------------------------------------------------------------------ bounds
MaxVersion == 2      \* highest validator-list sequence a response carries
MaxSeq == 2          \* highest manifest sequence
MaxEntries == 2      \* longest validator list in a response
MaxFetches == 2      \* roster fetches that may be in progress at once
MaxAwaits == 1       \* stream manifest handlers that may wait for a name at once
MaxConns == 3        \* connections created over a run of SpecPeers
MaxResolves == 1     \* name resolutions that may be in progress at once
\* The bounds of SpecSerial: one fetch at a time, one more list version.
MaxVersionSerial == 3
MaxFetchesSerial == 1

\* ------------------------------------------------------------ value spaces
\* Hex encoded master keys, as they appear in a validator list.
MasterHex == {"ED0A", "ED0B"}

\* The signing key (hex) that the manifest with sequence n of a master key names:
\* a validator signs one manifest per sequence number.
SigningPubKeyOf(master, n) ==
  CASE master = "ED0A" /\ n = 1 -> "03A1"
    [] master = "ED0A" /\ n = 2 -> "03A2"
    [] master = "ED0A" /\ n = 3 -> "03A3"
    [] master = "ED0B" /\ n = 1 -> "03B1"
    [] master = "ED0B" /\ n = 2 -> "03B2"
    [] master = "ED0B" /\ n = 3 -> "03B3"

\* hexToBase58: an injective encoding of a hex key into its base58 form.
hexToBase58(hex) ==
  CASE hex = "ED0A" -> "nHUA"
    [] hex = "ED0B" -> "nHUB"
    [] hex = "03A1" -> "n9A1"
    [] hex = "03A2" -> "n9A2"
    [] hex = "03A3" -> "n9A3"
    [] hex = "03B1" -> "n9B1"
    [] hex = "03B2" -> "n9B2"
    [] hex = "03B3" -> "n9B3"

Ids == {hexToBase58(h) : h \in MasterHex}
IdOrder == <<"nHUA", "nHUB">>

\* A manifest blob of a validator list; Undecodable is a blob codec.decode rejects.
Undecodable == [SigningPubKey |-> "", Sequence |-> 0]
ManifestsOf(master) ==
  {[SigningPubKey |-> SigningPubKeyOf(master, n), Sequence |-> n] : n \in 1..MaxSeq}
    \cup {Undecodable}
Entries ==
  UNION {[validation_public_key : {master}, manifest : ManifestsOf(master)] :
           master \in MasterHex}
\* A validator list names each validator at most once, in the order of HexOrder.
HexOrder == <<"ED0A", "ED0B">>
Position(hex) == CHOOSE i \in DOMAIN HexOrder : HexOrder[i] = hex
ValidatorLists ==
  {list \in UNION {[1..n -> Entries] : n \in 0..MaxEntries} :
     \A i, j \in DOMAIN list :
       i < j => Position(list[i].validation_public_key) < Position(list[j].validation_public_key)}

\* The addresses ('ws://' + ip + ':' + WS_PORT) the hostname can resolve to.
Addresses == {"ws://10.0.0.1:51233", "ws://10.0.0.2:51233"}

\* The `domain` field of a Data API response; "" is a response without one.
Domains == {"", "d1.example"}

\* ------------------------------------------------------------------- state
VARIABLES
  lastValidatorListSequence,  \* Network.lastValidatorListSequence
  validators,                 \* Network.validators: id -> [signing_key, Sequence]
  manifestKeys,               \* Network.manifestKeys: signing key -> id
  names,                      \* Network.names: id -> name
  fetching,                   \* roster requests in flight
  batches,                    \* getUNL callbacks suspended at `await fetchName`
  streamAwaits,               \* onManifestReceived calls suspended at `await fetchName`
  events,                     \* the onUnlData calls the last handler run made, in order
  applied,                    \* ghost: the creates/updates the last handler run applied
  startupSeen,                \* ghost: a batch has created validators in an empty registry
  last,                       \* ghost: the registry handler that ran last, with its input
  validationStreams,          \* Network.validationStreams: address -> connection
  conns,                      \* the ValidationStream objects created so far
  resolving,                  \* dns.resolve4 calls in flight
  crashed                     \* an exception left a callback uncaught: the process is gone

registryButLast == <<lastValidatorListSequence, validators, manifestKeys, names, fetching,
                     batches, streamAwaits, events, applied, startupSeen>>
registryVars == <<lastValidatorListSequence, validators, manifestKeys, names, fetching,
                  batches, streamAwaits, events, applied, startupSeen, last>>
peerVars == <<validationStreams, conns, resolving, crashed>>
vars == <<registryVars, peerVars>>

\* ----------------------------------------------------------------- helpers
Put(f, k, v) == [x \in DOMAIN f \cup {k} |-> IF x = k THEN v ELSE f[x]]
Delete(f, k) == [x \in DOMAIN f \ {k} |-> f[x]]
Range(s) == {s[i] : i \in DOMAIN s}

\* Object.keys(this.validators)
ObjectKeys(V) == SelectSeq(IdOrder, LAMBDA id : id \in DOMAIN V)

\* array.indexOf(element), 0 when absent
IndexOf(array, element) ==
  IF element \in Range(array)
    THEN CHOOSE i \in DOMAIN array :
           array[i] = element /\ \A j \in 1..(i - 1) : array[j] # element
    ELSE 0

\* mutant: without the `index !== -1` test, splice(-1, 1) drops the last element
removeUnchecked(array, element) ==
  LET index == IndexOf(array, element)
  IN IF index # 0
       THEN SubSeq(array, 1, index - 1) \o SubSeq(array, index + 1, Len(array))
       ELSE SubSeq(array, 1, Len(array) - 1)

\* remove(array, element)
remove(array, element) ==
  LET index == IndexOf(array, element)
  IN IF index # 0
       THEN SubSeq(array, 1, index - 1) \o SubSeq(array, index + 1, Len(array))
       ELSE array

\* The value fetchName resolves to once the Data API answered with `domain`
\* ("fail" is a failed request), and the names cache afterwards.
NamesAfter(N, id, domain) ==
  IF domain \notin {"", "fail"} THEN Put(N, id, domain) ELSE N
NameResolved(N, id, domain) ==
  IF domain \notin {"", "fail"} THEN domain ELSE id

\* The argument of an onUnlData call.  A batch event has no
\* isFromManifestsStream field, modelled as FALSE.  `first` is a ghost field:
\* the event comes from the first non-empty batch applied to an empty registry.
UnlEvent(startup, newValidator, name, id, key, seq, fromStream, first) ==
  [isDuringStartup |-> startup, isNewValidator |-> newValidator,
   isNewManifest |-> TRUE, validatorName |-> name,
   validation_public_key_base58 |-> id, signing_key |-> key, Sequence |-> seq,
   isFromManifestsStream |-> fromStream, first |-> first]

\* ghost: one applied create or update
Applied(source, id, key, seq, isNew) ==
  [source |-> source, id |-> id, signing_key |-> key, Sequence |-> seq, isNew |-> isNew]

\* ------------------------------------------------------------------ getUNL
\* codec.decode(manifestHex); the caller checks Decodes first (decode throws).
Decodes(manifest) == manifest # Undecodable
codec_decode(manifest) == manifest

\* The body of the `for (const validator of validatorList.validators)` loop and
\* the deletion loop, run from entry L.b.i until the callback suspends on a
\* name request, throws, or returns.  L = [V, MK, EV, AP, N, b]; the result has
\* the same fields plus pc \in {"await", "failed", "done"}.
RECURSIVE RunBatch(_)
\* mutant: the event is built from the registry as it is after the await
AfterNameStored(L, validatorName) ==
  LET b == L.b
      validator == b.list[b.i]
      id == hexToBase58(validator.validation_public_key)
      manifest == codec_decode(validator.manifest)
      signing_key == hexToBase58(manifest.SigningPubKey)
      stored == IF id \in DOMAIN L.V
                  THEN L.V[id]
                  ELSE [signing_key |-> signing_key, Sequence |-> manifest.Sequence]
  IN RunBatch([L EXCEPT
       !.EV = Append(@, UnlEvent(b.isDuringStartup, b.isNewValidator, validatorName,
                                 id, stored.signing_key, stored.Sequence, FALSE, b.first)),
       !.MK = Put(@, signing_key, id),
       !.b.i = @ + 1])

\* The statements after `await this.fetchName(...)`, then the rest of the loop.
AfterName(L, validatorName) ==
  LET b == L.b
      validator == b.list[b.i]
      id == hexToBase58(validator.validation_public_key)
      manifest == codec_decode(validator.manifest)
      signing_key == hexToBase58(manifest.SigningPubKey)
      Sequence == manifest.Sequence
  IN RunBatch([L EXCEPT
       !.EV = Append(@, UnlEvent(b.isDuringStartup, b.isNewValidator, validatorName,
                                 id, signing_key, Sequence, FALSE, b.first)),
       !.MK = Put(@, signing_key, id),
       !.b.i = @ + 1])

\* The update of this.validators for one entry that passed the Sequence test.
SetValidator(V, id, signing_key, Sequence) ==
  Put(V, id, [signing_key |-> signing_key, Sequence |-> Sequence])

\* mutant: an entry with the stored Sequence is applied again
EntryAppliesLe(V, id, manifest) ==
  id \notin DOMAIN V \/ V[id].Sequence <= manifest.Sequence

\* The test that decides whether a validator list entry is applied.
EntryApplies(V, id, manifest) ==
  id \notin DOMAIN V \/ V[id].Sequence < manifest.Sequence

\* The deletion loop: `for (const validator of validatorsToDelete) delete ...`
DeleteValidators(V, validatorsToDelete) ==
  [id \in DOMAIN V \ Range(validatorsToDelete) |-> V[id]]

RunBatch(L) ==
  LET b == L.b IN
  IF b.i > Len(b.list)
    THEN [L EXCEPT !.V = DeleteValidators(@, b.validatorsToDelete)] @@ [pc |-> "done"]
    ELSE
      LET validator == b.list[b.i]
          id == hexToBase58(validator.validation_public_key)
          toDelete == remove(b.validatorsToDelete, id)
      IN IF ~Decodes(validator.manifest)
           THEN [L EXCEPT !.b.validatorsToDelete = toDelete] @@ [pc |-> "failed"]
           ELSE
             LET manifest == codec_decode(validator.manifest)
                 signing_key == hexToBase58(manifest.SigningPubKey)
                 Sequence == manifest.Sequence
                 isNewValidator == id \notin DOMAIN L.V
             IN IF EntryApplies(L.V, id, manifest)
                  THEN
                    LET M == [L EXCEPT
                          !.V = SetValidator(@, id, signing_key, Sequence),
                          !.AP = Append(@, Applied("roster", id, signing_key, Sequence,
                                                   isNewValidator)),
                          !.b.validatorsToDelete = toDelete,
                          !.b.isNewValidator = isNewValidator,
                          !.b.rotated = IF isNewValidator \/ L.V[id].signing_key = signing_key
                                          THEN @
                                          ELSE @ \cup {<<id, L.V[id].signing_key, signing_key>>}]
                    IN IF id \in DOMAIN L.N
                         THEN AfterName(M, L.N[id])
                         ELSE M @@ [pc |-> "await"]
                  ELSE RunBatch([L EXCEPT !.b.validatorsToDelete = toDelete,
                                          !.b.i = @ + 1])

\* The local state of a getUNL callback that passed the version check.
\* first, rotated, overlapped and newer are ghost fields: the batch is the first
\* one that creates validators in an empty registry; the key rotations it made,
\* as <<id, old key, new key>>; another batch was in progress during this one;
\* the version and the identities of the highest list of a greater version whose
\* batch has run to its end during this one.
NewBatch(version, list, V, first, overlapped) ==
  [version |-> version, list |-> list, i |-> 1,
   validatorsToDelete |-> ObjectKeys(V),
   isDuringStartup |-> (Len(ObjectKeys(V)) = 0),
   isNewValidator |-> FALSE,
   first |-> first, rotated |-> {}, overlapped |-> overlapped,
   newer |-> [version |-> 0, listed |-> {}]]

\* ghost: what the last run of a getUNL callback was: the list version, how the
\* run ended, the identities the list names and the ghost fields of the batch.
Listed(list) == {hexToBase58(list[i].validation_public_key) : i \in DOMAIN list}
BatchRun(op, R) ==
  [op |-> op, version |-> R.b.version, pc |-> R.pc,
   listed |-> Listed(R.b.list),
   rotated |-> R.b.rotated, overlapped |-> R.b.overlapped, newer |-> R.b.newer]

\* ghost: batch o, suspended while the run R of another batch ends.
Overtaken(o, R) ==
  IF R.pc = "done" /\ R.b.version > o.version /\ R.b.version > o.newer.version
    THEN [o EXCEPT !.newer = [version |-> R.b.version, listed |-> Listed(R.b.list)]]
    ELSE o

\* The registry after a run R of a batch; `others` are the other suspended batches.
Store(R, others) ==
  /\ validators' = R.V
  /\ manifestKeys' = R.MK
  /\ events' = R.EV
  /\ applied' = R.AP
  /\ batches' = {Overtaken(o, R) : o \in others} \cup (IF R.pc = "await" THEN {R.b} ELSE {})

\* getUNL(): the request is sent.
GetUNL(maxFetches) ==
  /\ ~crashed
  /\ fetching + Cardinality(batches) < maxFetches
  /\ fetching' = fetching + 1
  /\ last' = [op |-> "getUNL"]
  /\ events' = <<>>
  /\ applied' = <<>>
  /\ UNCHANGED <<lastValidatorListSequence, validators, manifestKeys, names, batches,
                 streamAwaits, startupSeen, peerVars>>

\* The request fails, or the blob is not base64 JSON: the promise rejects.
GetUNLFailed ==
  /\ ~crashed
  /\ fetching > 0
  /\ fetching' = fetching - 1
  /\ last' = [op |-> "fetchFailed"]
  /\ events' = <<>>
  /\ applied' = <<>>
  /\ UNCHANGED <<lastValidatorListSequence, validators, manifestKeys, names, batches,
                 streamAwaits, startupSeen, peerVars>>

\* mutant: a list with the stored sequence is applied again
IsStaleLt(version, stored) == version < stored

\* `validatorList.sequence <= this.lastValidatorListSequence`: nothing new.
IsStale(version, stored) == version <= stored

\* The `.then(async (data) => ...)` callback of getUNL, up to its first suspension.
GetUNLResponse(version, list) ==
  /\ ~crashed
  /\ fetching > 0
  /\ fetching' = fetching - 1
  /\ UNCHANGED peerVars
  /\ IF IsStale(version, lastValidatorListSequence)
       THEN /\ last' = [op |-> "roster", version |-> version, pc |-> "stale"]
            /\ events' = <<>>
            /\ applied' = <<>>
            /\ UNCHANGED <<lastValidatorListSequence, validators, manifestKeys, names,
                           batches, streamAwaits, startupSeen>>
       ELSE LET first == /\ ~startupSeen
                         /\ DOMAIN validators = {}
                         /\ Len(list) > 0
                         /\ Decodes(list[1].manifest)
                b == NewBatch(version, list, validators, first, batches # {})
                R == RunBatch([V |-> validators, MK |-> manifestKeys, EV |-> <<>>,
                               AP |-> <<>>, N |-> names, b |-> b])
            IN /\ lastValidatorListSequence' = version
               /\ startupSeen' = (startupSeen \/ first)
               /\ Store(R, {[o EXCEPT !.overlapped = TRUE] : o \in batches})
               /\ last' = BatchRun("roster", R)
               /\ UNCHANGED <<names, streamAwaits>>

\* The Data API answers the name request of a suspended getUNL callback.
NameResponseBatch(b, domain) ==
  /\ ~crashed
  /\ b \in batches
  /\ LET id == hexToBase58(b.list[b.i].validation_public_key)
         N == NamesAfter(names, id, domain)
         R == AfterName([V |-> validators, MK |-> manifestKeys, EV |-> <<>>,
                         AP |-> <<>>, N |-> N, b |-> b],
                        NameResolved(names, id, domain))
     IN /\ names' = N
        /\ Store(R, batches \ {b})
        /\ last' = BatchRun("batchName", R)
  /\ UNCHANGED <<lastValidatorListSequence, fetching, streamAwaits, startupSeen, peerVars>>

\* ------------------------------------------------------ onManifestReceived
\* The manifestReceived messages: the manifests of the validators, in base58.
ManifestMessages ==
  {[master_key |-> hexToBase58(master),
    signing_key |-> hexToBase58(SigningPubKeyOf(master, n)),
    seq |-> n] : master \in MasterHex, n \in 1..MaxSeq}

\* The test that decides whether a stream manifest is applied.
ManifestApplies(V, m) ==
  m.master_key \in DOMAIN V /\ V[m.master_key].Sequence < m.seq

\* mutant: the old signing key is left in manifestKeys
RotateKeyKeepOld(MK, old, signing_key, master_key) ==
  Put(MK, signing_key, master_key)

\* manifestKeys after `delete this.manifestKeys[old]` and the new assignment.
RotateKey(MK, old, signing_key, master_key) ==
  Put(Delete(MK, old), signing_key, master_key)

StreamEvent(m, validatorName) ==
  UnlEvent(FALSE, FALSE, validatorName, m.master_key, m.signing_key, m.seq, TRUE, FALSE)

\* mutant: a manifest of an identity that is not tracked creates it
StreamUpdateCreates(V, MK, m) ==
  IF m.master_key \notin DOMAIN V
    THEN [V |-> SetValidator(V, m.master_key, m.signing_key, m.seq),
          MK |-> Put(MK, m.signing_key, m.master_key),
          applies |-> TRUE]
    ELSE IF V[m.master_key].Sequence < m.seq
      THEN [V |-> SetValidator(V, m.master_key, m.signing_key, m.seq),
            MK |-> RotateKey(MK, V[m.master_key].signing_key, m.signing_key, m.master_key),
            applies |-> TRUE]
      ELSE [V |-> V, MK |-> MK, applies |-> FALSE]

\* The synchronous part of onManifestReceived: the registry [V, MK] after the
\* message, and whether the manifest was applied.
StreamUpdate(V, MK, m) ==
  IF ManifestApplies(V, m)
    THEN [V |-> SetValidator(V, m.master_key, m.signing_key, m.seq),
          MK |-> RotateKey(MK, V[m.master_key].signing_key, m.signing_key, m.master_key),
          applies |-> TRUE]
    ELSE [V |-> V, MK |-> MK, applies |-> FALSE]

\* onManifestReceived(m), up to `await this.fetchName(master_key)`.
OnManifestReceived(m) ==
  /\ last' = [op |-> "manifest", m |-> m]
  /\ LET U == StreamUpdate(validators, manifestKeys, m)
     IN /\ (U.applies /\ m.master_key \notin DOMAIN names)
             => BagCardinality(streamAwaits) < MaxAwaits
        /\ validators' = U.V
        /\ manifestKeys' = U.MK
        /\ IF U.applies
             THEN /\ applied' = <<Applied("stream", m.master_key, m.signing_key, m.seq, FALSE)>>
                  /\ IF m.master_key \in DOMAIN names
                       THEN /\ events' = <<StreamEvent(m, names[m.master_key])>>
                            /\ UNCHANGED streamAwaits
                       ELSE /\ streamAwaits' = streamAwaits (+) SetToBag({m})
                            /\ events' = <<>>
             ELSE /\ events' = <<>>
                  /\ applied' = <<>>
                  /\ UNCHANGED streamAwaits
  /\ UNCHANGED <<lastValidatorListSequence, names, fetching, batches, startupSeen>>

\* A manifestReceived message of the manifests stream of some peer.
ManifestReceived(m) ==
  /\ ~crashed
  /\ OnManifestReceived(m)
  /\ UNCHANGED peerVars

\* The Data API answers the name request of a suspended onManifestReceived call.
NameResponseStream(m, domain) ==
  /\ ~crashed
  /\ BagIn(m, streamAwaits)
  /\ streamAwaits' = streamAwaits (-) SetToBag({m})
  /\ names' = NamesAfter(names, m.master_key, domain)
  /\ events' = <<StreamEvent(m, NameResolved(names, m.master_key, domain))>>
  /\ applied' = <<>>
  /\ last' = [op |-> "streamName", m |-> m]
  /\ UNCHANGED <<lastValidatorListSequence, validators, manifestKeys, fetching, batches,
                 startupSeen, peerVars>>

\* -------------------------------------------------------- ValidationStream
\* `useHeartbeat = true` of the constructor's options; Network never passes it.
UseHeartbeatDefault == TRUE

\* new ValidationStream({address, ...}): the WebSocket is connecting, no timer is
\* armed.  pingTimeout tells whether the timer this.pingTimeout refers to is
\* armed.  Ghost fields: timers, the number of armed timers of this connection;
\* onCloseCalls and causes, how often, and with which causes, the onClose
\* callback of this connection has been invoked.
NewValidationStream(address, useHeartbeat) ==
  [address |-> address, readyState |-> "CONNECTING", useHeartbeat |-> useHeartbeat,
   pingTimeout |-> FALSE, timers |-> 0, onCloseCalls |-> 0, causes |-> {}]

\* The peer state a handler works on is P = [VS, C, crashed]: validationStreams,
\* the connections and whether an exception has escaped.

\* The value of this.validationStreams while nothing has been assigned to it:
\* the field is declared without an initialiser.  Reading a property of it throws.
Undefined == [a \in {"undefined"} |-> 0]

\* onCloseAddress(address, cause): reading readyState() of a missing entry throws.
onCloseAddress(P, address) ==
  IF P.VS = Undefined \/ address \notin DOMAIN P.VS
    THEN [P EXCEPT !.crashed = TRUE]
    ELSE [P EXCEPT !.VS = Delete(@, address)]

\* The onClose callback the Network hands to connection c.  Nothing runs once
\* an exception has escaped from the handler.
onClose(P, c, cause) ==
  IF P.crashed
    THEN P
    ELSE onCloseAddress([P EXCEPT !.C[c].onCloseCalls = @ + 1,
                                  !.C[c].causes = @ \cup {cause}],
                        P.C[c].address)

\* ws.terminate(): the socket is destroyed; its 'close' event follows later.
terminate(P, c) ==
  IF P.C[c].readyState = "CLOSED" THEN P ELSE [P EXCEPT !.C[c].readyState = "CLOSING"]

\* clearTimeout(this.pingTimeout): cancels the timer the field refers to.
clearTimeout(P, c) ==
  IF P.C[c].pingTimeout
    THEN [P EXCEPT !.C[c].pingTimeout = FALSE, !.C[c].timers = @ - 1]
    ELSE P

\* this.pingTimeout = setTimeout(...)
setTimeout(P, c) == [P EXCEPT !.C[c].pingTimeout = TRUE, !.C[c].timers = @ + 1]

\* heartbeat(): clearTimeout, then setTimeout.
heartbeat(P, c) == setTimeout(clearTimeout(P, c), c)

Peers == [VS |-> validationStreams, C |-> conns, crashed |-> crashed]
StorePeers(P) ==
  /\ validationStreams' = P.VS
  /\ conns' = P.C
  /\ crashed' = P.crashed

\* The 'open' event: heartbeat() when enabled, and the two subscribe requests.
WsOpen(c) ==
  /\ ~crashed
  /\ conns[c].readyState = "CONNECTING"
  /\ LET P == [Peers EXCEPT !.C[c].readyState = "OPEN"]
     IN StorePeers(IF conns[c].useHeartbeat THEN heartbeat(P, c) ELSE P)
  /\ UNCHANGED <<registryVars, resolving>>

\* The 'ping' event.
WsPing(c) ==
  /\ ~crashed
  /\ conns[c].readyState = "OPEN"
  /\ StorePeers(IF conns[c].useHeartbeat THEN heartbeat(Peers, c) ELSE Peers)
  /\ UNCHANGED <<registryVars, resolving>>

\* The callback of the pingTimeout timer.
PingTimeout(c) ==
  /\ ~crashed
  /\ conns[c].timers > 0
  /\ LET P == [Peers EXCEPT !.C[c].timers = @ - 1,
                            !.C[c].pingTimeout = (@ /\ conns[c].timers > 1)]
     IN StorePeers(onClose(terminate(P, c), c, "heartbeat"))
  /\ UNCHANGED <<registryVars, resolving>>

\* The 'message' handler, for each kind of message.
WsValidationMessage(c) ==
  /\ ~crashed
  /\ conns[c].readyState = "OPEN"
  /\ UNCHANGED vars

WsManifestMessage(c, m) ==
  /\ ~crashed
  /\ conns[c].readyState = "OPEN"
  /\ OnManifestReceived(m)
  /\ UNCHANGED peerVars

WsUnknownStreamMessage(c) ==
  /\ ~crashed
  /\ conns[c].readyState = "OPEN"
  /\ StorePeers(onClose(terminate(Peers, c), c, "unknownStream"))
  /\ UNCHANGED <<registryVars, resolving>>

\* The 'close' event and its listeners in the order they were registered: the
\* one of the heartbeat block, then the unconditional one.
WsClose(c) ==
  /\ ~crashed
  /\ conns[c].readyState # "CLOSED"
  /\ LET P0 == [Peers EXCEPT !.C[c].readyState = "CLOSED"]
         P1 == IF conns[c].useHeartbeat
                 THEN onClose(clearTimeout(P0, c), c, "close")
                 ELSE P0
     IN StorePeers(onClose(P1, c, "close"))
  /\ UNCHANGED <<registryVars, resolving>>

\* ------------------------------------------------------ subscribeToRippleds
\* subscribeToRippleds(): dns.resolve4 is called.
SubscribeToRippleds ==
  /\ ~crashed
  /\ resolving < MaxResolves
  /\ resolving' = resolving + 1
  /\ UNCHANGED <<registryVars, validationStreams, conns, crashed>>

\* The resolve4 callback with err set.
DnsFailed ==
  /\ ~crashed
  /\ resolving > 0
  /\ resolving' = resolving - 1
  /\ last' = [op |-> "resolveFailed"]
  /\ UNCHANGED <<registryButLast, validationStreams, conns, crashed>>

AddressOrder == <<"ws://10.0.0.1:51233", "ws://10.0.0.2:51233">>

\* `for (const ip of ips)`: a connection is created for each address without
\* entry.  `this.validationStreams[address]` throws while the field is undefined.
RECURSIVE Connect(_, _)
Connect(P, addresses) ==
  IF addresses = <<>>
    THEN P
    ELSE IF P.VS = Undefined
      THEN [P EXCEPT !.crashed = TRUE]
      ELSE LET address == Head(addresses)
               Q == IF address \notin DOMAIN P.VS
                      THEN [P EXCEPT
                             !.C = Append(@, NewValidationStream(address, UseHeartbeatDefault)),
                             !.VS = Put(@, address, Len(P.C) + 1)]
                      ELSE P
           IN Connect(Q, Tail(addresses))

\* The resolve4 callback with the addresses `ips` stands for.
DnsResolved(ips) ==
  /\ ~crashed
  /\ resolving > 0
  /\ resolving' = resolving - 1
  /\ LET P == Connect(Peers, SelectSeq(AddressOrder, LAMBDA a : a \in ips))
     IN /\ Len(P.C) <= MaxConns
        /\ StorePeers(P)
  /\ last' = [op |-> "resolved", ips |-> ips]
  /\ UNCHANGED registryButLast

\* ------------------------------------------------------------- constructor
\* The value of `this` in refreshSubscriptions at its two call sites: the
\* constructor calls the function plainly, setInterval calls it on its Timeout.
ThisOfCall(site) ==
  CASE site = "constructor" -> "undefined"
    [] site = "interval" -> "Timeout"

\* refreshSubscriptions() run with `this`: which of the two actions it starts
\* and whether it throws.  `this.network` throws on undefined; `this.getUNL()`
\* throws on an object that has no such method.
refreshSubscriptions(this) ==
  IF this = "Network"
    THEN [getUNL |-> TRUE, subscribeToRippleds |-> TRUE, threw |-> FALSE]
    ELSE [getUNL |-> FALSE, subscribeToRippleds |-> FALSE, threw |-> TRUE]

\* One call of refreshSubscriptions from `site`.  The exception leaves the
\* constructor, or the timer callback, uncaught.
RefreshSubscriptions(site) ==
  /\ ~crashed
  /\ LET r == refreshSubscriptions(ThisOfCall(site))
     IN /\ fetching' = fetching + (IF r.getUNL THEN 1 ELSE 0)
        /\ resolving' = resolving + (IF r.subscribeToRippleds THEN 1 ELSE 0)
        /\ crashed' = r.threw
  /\ last' = [op |-> "refresh", site |-> site]
  /\ events' = <<>>
  /\ applied' = <<>>
  /\ UNCHANGED <<lastValidatorListSequence, validators, manifestKeys, names, batches,
                 streamAwaits, startupSeen, validationStreams, conns>>

\* `refreshSubscriptions()` at the end of the constructor.
NetworkConstructor == RefreshSubscriptions("constructor")

\* A tick of `setInterval(refreshSubscriptions, 60 * 1000)`.
IntervalTick == RefreshSubscriptions("interval")

\* ------------------------------------------------------------ specification
\* The lists a response with sequence `version` is drawn from.  A response that
\* is discarded by the sequence test is discarded whatever it lists: the empty
\* list stands for all of them.
ListsOf(version) ==
  IF IsStale(version, lastValidatorListSequence) THEN {<<>>} ELSE ValidatorLists

Init ==
  /\ lastValidatorListSequence = 0
  /\ validators = <<>>
  /\ manifestKeys = <<>>
  /\ names = <<>>
  /\ fetching = 0
  /\ batches = {}
  /\ streamAwaits = EmptyBag
  /\ events = <<>>
  /\ applied = <<>>
  /\ startupSeen = FALSE
  /\ last = [op |-> "init"]
  /\ validationStreams = Undefined
  /\ conns = <<>>
  /\ resolving = 0
  /\ crashed = FALSE

\* The Network whose connections SpecPeers follows: validationStreams is as the
\* class leaves it, or holds the empty object of its declared type.
InitPeers ==
  /\ lastValidatorListSequence = 0
  /\ validators = <<>>
  /\ manifestKeys = <<>>
  /\ names = <<>>
  /\ fetching = 0
  /\ batches = {}
  /\ streamAwaits = EmptyBag
  /\ events = <<>>
  /\ applied = <<>>
  /\ startupSeen = FALSE
  /\ last = [op |-> "init"]
  /\ validationStreams \in {Undefined, <<>>}
  /\ conns = <<>>
  /\ resolving = 0
  /\ crashed = FALSE

Next ==
  \/ GetUNL(MaxFetches)
  \/ GetUNLFailed
  \/ \E version \in 1..MaxVersion : \E list \in ListsOf(version) :
       GetUNLResponse(version, list)
  \/ \E b \in batches, domain \in Domains \cup {"fail"} : NameResponseBatch(b, domain)
  \/ \E m \in ManifestMessages : ManifestReceived(m)
  \/ \E m \in ManifestMessages, domain \in Domains \cup {"fail"} : NameResponseStream(m, domain)

Spec == Init /\ [][Next]_vars

\* The same program when the caller starts a fetch only after the previous one
\* has been applied.
NextSerial ==
  \/ GetUNL(MaxFetchesSerial)
  \/ GetUNLFailed
  \/ \E version \in 1..MaxVersionSerial : \E list \in ListsOf(version) :
       GetUNLResponse(version, list)
  \/ \E b \in batches, domain \in Domains \cup {"fail"} : NameResponseBatch(b, domain)
  \/ \E m \in ManifestMessages : ManifestReceived(m)
  \/ \E m \in ManifestMessages, domain \in Domains \cup {"fail"} : NameResponseStream(m, domain)

SpecSerial == Init /\ [][NextSerial]_vars

\* The connections of the Network: discovery, the stream events and the timers.
NextPeers ==
  \/ NetworkConstructor
  \/ IntervalTick
  \/ GetUNL(MaxFetchesSerial)
  \/ GetUNLFailed
  \/ SubscribeToRippleds
  \/ DnsFailed
  \/ \E ips \in SUBSET Addresses : DnsResolved(ips)
  \/ \E c \in DOMAIN conns : WsOpen(c)
  \/ \E c \in DOMAIN conns : WsPing(c)
  \/ \E c \in DOMAIN conns : PingTimeout(c)
  \/ \E c \in DOMAIN conns : WsValidationMessage(c)
  \/ \E c \in DOMAIN conns, m \in ManifestMessages : WsManifestMessage(c, m)
  \/ \E c \in DOMAIN conns : WsUnknownStreamMessage(c)
  \/ \E c \in DOMAIN conns : WsClose(c)

SpecPeers == InitPeers /\ [][NextPeers]_vars

\* The same, with the timers of the event loop: the callback of an armed timer
\* runs once its delay has passed, unless the timer is cleared first.
SpecPeersFair ==
  SpecPeers /\ \A c \in 1..MaxConns : WF_vars(c \in DOMAIN conns /\ PingTimeout(c))

\* ------------------------------------------------------------- properties
BatchDone(l) == l.op \in {"roster", "batchName"} /\ l.pc = "done"
Tracked == DOMAIN validators
Resolves(k, id) == k \in DOMAIN manifestKeys /\ manifestKeys[k] = id
SeqToBag(s) == [x \in Range(s) |-> Cardinality({i \in DOMAIN s : s[i] = x})]

\* C1: when a batch has rotated a tracked identity from k_old to k_new and has
\* run to its end (the identity still has k_new and no other tracked identity
\* uses either key), k_old is not in manifestKeys and k_new resolves to the
\* identity.
C1_RotatedKeyResolves ==
  BatchDone(last) =>
    \A r \in last.rotated :
      ( /\ r[1] \in Tracked
        /\ validators[r[1]].signing_key = r[3]
        /\ \A id \in Tracked \ {r[1]} : validators[id].signing_key \notin {r[2], r[3]} )
      => (r[2] \notin DOMAIN manifestKeys /\ Resolves(r[3], r[1]))

\* C2: a batch that removes an identity leaves no signing key that resolves to
\* the removed identity.
C2_RemovedIdentityUnindexed ==
  [][BatchDone(last') =>
       \A id \in Tracked \ DOMAIN validators' :
         \A k \in DOMAIN manifestKeys' : manifestKeys'[k] # id]_vars

\* C3: the stored Sequence of a tracked identity never decreases; every update a
\* handler applies to a tracked identity carries a Sequence greater than the
\* stored one; an identity's record changes only by an applied update; the
\* signing-key index changes only with an applied stream update or an emitted
\* event; a stream manifest with Sequence <= the stored one changes nothing
\* and emits nothing.
IsFresh(u) ==
  IF u.isNew THEN u.id \notin Tracked
  ELSE u.id \in Tracked /\ u.Sequence > validators[u.id].Sequence
C4_ListVersion ==
  [][ /\ lastValidatorListSequence' >= lastValidatorListSequence
      /\ (last'.op = "roster" /\ last'.version <= lastValidatorListSequence)
         => /\ UNCHANGED <<validators, manifestKeys, lastValidatorListSequence, batches>>
            /\ events' = <<>>
      /\ (last'.op = "roster" /\ last'.version > lastValidatorListSequence)
         => lastValidatorListSequence' = last'.version
    ]_vars
\* A response with the stored sequence has arrived while validators are tracked.
C4_Witness ==
  /\ last.op = "roster"
  /\ last.version = lastValidatorListSequence
  /\ last.pc = "stale"
  /\ Tracked # {}

\* C5: when a batch that no other batch overlapped has run to its end, the
\* tracked identities are exactly the identities its list names.
C5_RemovesExactlyAbsent ==
  (BatchDone(last) /\ ~last.overlapped) => Tracked = last.listed
\* Such a batch has ended without applying the entry of the one identity it
\* names (the stored Sequence is not lower), and the identity is still tracked.
C5_Witness ==
  /\ BatchDone(last) /\ ~last.overlapped
  /\ last.op = "roster"
  /\ last.version = MaxVersion
  /\ Cardinality(last.listed) = 1
  /\ applied = <<>>
  /\ Tracked = last.listed

\* C6: a stream manifest of an identity that is not tracked changes neither
\* validators, manifestKeys nor lastValidatorListSequence, emits no event and
\* starts no name request; no stream manifest removes an identity.
C6_UntrackedManifestNoOp ==
  [][ /\ (last'.op = "manifest" /\ last'.m.master_key \notin Tracked)
         => /\ UNCHANGED <<validators, manifestKeys, lastValidatorListSequence,
                           streamAwaits>>
            /\ events' = <<>>
      /\ last'.op \in {"manifest", "streamName"} => Tracked \subseteq DOMAIN validators'
    ]_vars
\* A manifest of an untracked identity has arrived while another one is tracked.
C6_Witness ==
  /\ last.op = "manifest"
  /\ last.m.master_key \notin Tracked
  /\ last.m.seq = MaxSeq
  /\ Tracked # {}

\* C7: a stream manifest of a tracked identity with a Sequence greater than the
\* stored one stores (signing_key, seq) for it, takes the previous signing key
\* out of manifestKeys and makes the new one resolve to the identity; the
\* other identities and lastValidatorListSequence stay as they are.
C7_StreamRotation ==
  [][ ( /\ last'.op = "manifest"
        /\ last'.m.master_key \in Tracked
        /\ validators[last'.m.master_key].Sequence < last'.m.seq )
      => LET m == last'.m
             old == validators[m.master_key].signing_key
         IN /\ DOMAIN validators' = Tracked
            /\ validators'[m.master_key] =
                 [signing_key |-> m.signing_key, Sequence |-> m.seq]
            /\ old # m.signing_key => old \notin DOMAIN manifestKeys'
            /\ m.signing_key \in DOMAIN manifestKeys'
            /\ manifestKeys'[m.signing_key] = m.master_key
            /\ \A id \in Tracked \ {m.master_key} : validators'[id] = validators[id]
            /\ lastValidatorListSequence' = lastValidatorListSequence
    ]_vars
\* A stream manifest has been applied while two identities are tracked; the
\* signing keys that resolve are the current ones of the two identities.
C7_Witness ==
  /\ last.op = "manifest"
  /\ Len(applied) = 1
  /\ applied[1].source = "stream"
  /\ Cardinality(Tracked) = 2
  /\ Resolves(last.m.signing_key, last.m.master_key)
  /\ DOMAIN manifestKeys = {validators[id].signing_key : id \in Tracked}

\* C8: an event carries isDuringStartup = TRUE exactly when it comes from the
\* first batch that creates validators in an empty registry.
C8_StartupFlagFirstBatchOnly ==
  \A i \in DOMAIN events : events[i].isDuringStartup = events[i].first

EventCore(e) ==
  Applied(IF e.isFromManifestsStream THEN "stream" ELSE "roster",
          e.validation_public_key_base58, e.signing_key, e.Sequence, e.isNewValidator)
BatchPending(b) ==
  LET validator == b.list[b.i]
  IN Applied("roster", hexToBase58(validator.validation_public_key),
             hexToBase58(validator.manifest.SigningPubKey), validator.manifest.Sequence,
             b.isNewValidator)
StreamPending(m) == Applied("stream", m.master_key, m.signing_key, m.seq, FALSE)
PendingBag(B, S) ==
  [u \in {BatchPending(b) : b \in B} |-> Cardinality({b \in B : BatchPending(b) = u})]
    (+) [u \in {StreamPending(m) : m \in DOMAIN S} |->
           S[CHOOSE m \in DOMAIN S : StreamPending(m) = u]]
C10_OneEventPerUpdate ==
  [][ PendingBag(batches, streamAwaits) (+) SeqToBag(applied')
        = SeqToBag([i \in DOMAIN events' |-> EventCore(events'[i])])
            (+) PendingBag(batches', streamAwaits')
    ]_vars
\* A batch emits the event of an update after a stream manifest has replaced
\* the signing key and Sequence that update stored.
C10_Witness ==
  /\ last.op = "batchName"
  /\ Len(events) >= 1
  /\ LET e == events[1]
     IN /\ e.validation_public_key_base58 \in Tracked
        /\ validators[e.validation_public_key_base58].Sequence > e.Sequence
        /\ e.isNewValidator

\* C11: a connection never has two armed timers; the timer is armed while the
\* stream is open, and none is armed before it opens or after it has closed;
\* onClose is invoked with the heartbeat cause only by a run that terminates a
\* stream that has not closed; and whenever a timer is armed, eventually onClose
\* has been invoked with the heartbeat cause or the stream has closed.
TimerArmed(c) == c \in DOMAIN conns /\ conns[c].timers > 0
TimedOutOrClosed(c) ==
  c \in DOMAIN conns /\ ("heartbeat" \in conns[c].causes \/ conns[c].readyState = "CLOSED")
C12_FailedFetchAppliesNothing ==
  [][ ( \/ last'.op = "fetchFailed"
        \/ last'.op \in {"roster", "batchName"} /\ last'.pc = "failed" )
      => UNCHANGED <<validators, manifestKeys, lastValidatorListSequence>>
    ]_vars

C14_DiscoveryOnlyAdds ==
  [][ resolving' = resolving - 1
      => IF last'.op = "resolved"
           THEN /\ ~crashed'
                /\ \A a \in DOMAIN validationStreams :
                     a \in DOMAIN validationStreams'
                       /\ validationStreams'[a] = validationStreams[a]
                /\ \A c \in DOMAIN conns : c \in DOMAIN conns' /\ conns'[c] = conns[c]
                /\ \A a \in last'.ips \ DOMAIN validationStreams :
                     /\ a \in DOMAIN validationStreams'
                     /\ validationStreams'[a] \in DOMAIN conns' \ DOMAIN conns
                     /\ conns'[validationStreams'[a]] =
                          NewValidationStream(a, UseHeartbeatDefault)
                /\ Len(conns') = Len(conns) + Cardinality(last'.ips \ DOMAIN validationStreams)
           ELSE UNCHANGED <<validationStreams, conns, crashed>>
    ]_vars

\* C15: a run of refreshSubscriptions, from the constructor or from a tick of
\* the interval, starts one roster fetch and one peer discovery and throws no
\* exception.
C15_RefreshStartsBoth ==
  [][ last'.op = "refresh"
      => /\ fetching' = fetching + 1
         /\ resolving' = resolving + 1
         /\ ~crashed'
    ]_vars

\* C20: once onClose of a connection has been invoked, a newer connection of
\* its address is in validationStreams, or the process still runs, so that the
\* next discovery result that resolves the address creates one.
Healed(c) ==
  /\ conns[c].address \in DOMAIN validationStreams
  /\ validationStreams[conns[c].address] > c
C16_BatchIsOneTransaction ==
  [][ batches # {}
      => /\ last'.op \notin {"manifest", "roster"}
         /\ last'.op = "batchName" => Cardinality(batches) = 1
    ]_vars

\* C17: manifestKeys is the inverse of the signing keys of validators: the
\* signing key of each tracked identity resolves to it, and each key of
\* manifestKeys is the signing key of the tracked identity it resolves to.
C17_IndexIsInverse ==
  /\ \A id \in Tracked : Resolves(validators[id].signing_key, id)
  /\ \A k \in DOMAIN manifestKeys :
       /\ manifestKeys[k] \in Tracked
       /\ validators[manifestKeys[k]].signing_key = k

\* C18: when a batch has run to its end after the batch of a list of a greater
\* version has run to its end during it, and no batch is suspended and that
\* version is the stored one, the tracked identities are those of that list.
C18_OverlapConverges ==
  ( /\ BatchDone(last)
    /\ batches = {}
    /\ last.newer.version > last.version
    /\ last.newer.version = lastValidatorListSequence )
  => Tracked = last.newer.listed

\* C19: at most one name request is outstanding per identity, and a cached name
\* is never replaced or dropped.
OutstandingIn(B, S, id) ==
  Cardinality({b \in B : hexToBase58(b.list[b.i].validation_public_key) = id})
    + BagCardinality([m \in {x \in DOMAIN S : x.master_key = id} |-> S[m]])
Outstanding(id) == OutstandingIn(batches, streamAwaits, id)
C19_OneNameRequestPerIdentity ==
  /\ [](\A id \in Ids : Outstanding(id) <= 1)
  /\ [][\A id \in DOMAIN names : id \in DOMAIN names' /\ names'[id] = names[id]]_vars

\* C21: when a run emits the event that is the last one of a tracked identity
\* (no later event of the identity in the run, and no event of it waits for a
\* name afterwards), the event carries the signing key and the Sequence that
\* validators stores for the identity: no event of an earlier update is
\* delivered after the event of a later one.
C21_EventsInAppliedOrder ==
  [][ \A i \in DOMAIN events' :
        LET e == events'[i]
            id == e.validation_public_key_base58
        IN ( /\ id \in DOMAIN validators'
             /\ \A j \in DOMAIN events' :
                  j > i => events'[j].validation_public_key_base58 # id
             /\ OutstandingIn(batches', streamAwaits', id) = 0 )
           => validators'[id] = [signing_key |-> e.signing_key, Sequence |-> e.Sequence]
    ]_vars

====
